---- MODULE Spec2Model ----
(***************************************************************************)
(* inkify: colour conversion (util.ts), the two Color classes (color.ts    *)
(* holding RGB channels, and the ANSI variant holding a partial escape     *)
(* sequence) and the Style chain builder (style.ts).                       *)
(*                                                                         *)
(* Strings are sequences of one-character strings; the escape character    *)
(* \x1b is the token "ESC".  A JavaScript value that an argument or an     *)
(* intermediate result can take is a tagged pair: Num(n), NaN, Undefined. *)
(* Floating point quantities of the HSL/HSV conversions are exact          *)
(* rationals over the common denominator Denom.                            *)
(***************************************************************************)
EXTENDS Integers, Sequences, FiniteSets, TLC

VARIABLES call, result, chain, heap, copiedFrom

vars == <<call, result, chain, heap, copiedFrom>>

(***************************************************************************)
(* Bounds of the model.                                                    *)
(***************************************************************************)
MaxHexLen == 7
RandRes == 12
MaxRange == 4
MaxSeed == 3
ChanMargin == 2
PctStep == 20
HueStep == 10
MaxFrags == 3
MaxRenderFrags == 1

(***************************************************************************)
(* JavaScript values and the operations the code applies to them.          *)
(***************************************************************************)
Num(n) == <<"number", n>>

NaN == <<"NaN", 0>>

Undefined == <<"undefined", 0>>

TypeOf(a) == a[1]

NumberOf(a) == a[2]

\* a < n and a > n of JavaScript: false when a is NaN or undefined
JsLt(a, n) == TypeOf(a) = "number" /\ NumberOf(a) < n

JsGt(a, n) == TypeOf(a) = "number" /\ NumberOf(a) > n

Abs(n) == IF n < 0 THEN -n ELSE n

\* the % of JavaScript takes the sign of the dividend
JsMod(a, b) == IF a >= 0 THEN a % b ELSE -((-a) % b)

DigitChars == <<"0", "1", "2", "3", "4", "5", "6", "7", "8", "9">>

RECURSIVE Decimal(_)
Decimal(n) ==
    IF n < 10 THEN <<DigitChars[n + 1]>>
    ELSE Decimal(n \div 10) \o <<DigitChars[(n % 10) + 1]>>

\* `${v}` inside a template literal
TemplateString(v) ==
    IF TypeOf(v) = "NaN" THEN <<"N", "a", "N">>
    ELSE IF TypeOf(v) = "undefined" THEN <<"u", "n", "d", "e", "f", "i", "n", "e", "d">>
    ELSE IF NumberOf(v) < 0 THEN <<"-">> \o Decimal(-NumberOf(v))
    ELSE Decimal(NumberOf(v))

LowerHex == <<"0", "1", "2", "3", "4", "5", "6", "7", "8", "9", "a", "b", "c", "d", "e", "f">>

UpperHex == <<"0", "1", "2", "3", "4", "5", "6", "7", "8", "9", "A", "B", "C", "D", "E", "F">>

\* value of a hexadecimal digit, -1 for any other character
HexValue(c) ==
    IF \E i \in 1..16 : LowerHex[i] = c THEN (CHOOSE i \in 1..16 : LowerHex[i] = c) - 1
    ELSE IF \E i \in 1..16 : UpperHex[i] = c THEN (CHOOSE i \in 1..16 : UpperHex[i] = c) - 1
    ELSE -1

RECURSIVE ParseHexPrefix(_, _)
ParseHexPrefix(s, acc) ==
    IF s = <<>> \/ HexValue(Head(s)) < 0 THEN acc
    ELSE ParseHexPrefix(Tail(s), acc * 16 + HexValue(Head(s)))

\* parseInt(c, 16): the longest prefix of hex digits, NaN when there is none
\* (the characters of the model contain no sign, blank or "x")
parseInt(s) ==
    IF s = <<>> \/ HexValue(Head(s)) < 0 THEN NaN ELSE Num(ParseHexPrefix(s, 0))

\* hex.slice(1)
slice(s) == IF Len(s) <= 1 THEN <<>> ELSE SubSeq(s, 2, Len(s))

\* s.match(/.{2}/g): <<TRUE, the consecutive pairs of characters>>, or
\* <<FALSE, <<>>>> for null when there is no pair
match(s) ==
    IF Len(s) < 2 THEN <<FALSE, <<>>>>
    ELSE <<TRUE, [i \in 1..(Len(s) \div 2) |-> SubSeq(s, 2 * i - 1, 2 * i)]>>

\* /^[0-9a-fA-F]{6}$/g.test(hex)
HexRegexTest(s) == Len(s) = 6 /\ \A i \in 1..6 : HexValue(s[i]) >= 0

\* element i of an array pattern const [r, g, b] = arr
Destructure(arr, i) == IF i <= Len(arr) THEN arr[i] ELSE Undefined

(***************************************************************************)
(* util.ts                                                                 *)
(***************************************************************************)
Denom == 1200000

\* RoundChannel scaling to 256 levels
RoundChannel256(n) == (2 * 256 * n + Denom) \div (2 * Denom)

\* Math.round((v + m) * 255) for v + m = n / Denom
RoundChannel(n) == (2 * 255 * n + Denom) \div (2 * Denom)

\* the six 60 degree sectors, with c, x, m scaled by Denom
Sector(h, c, x, m) ==
    LET t == IF h < 60 THEN <<c, x, 0>>
             ELSE IF h < 120 THEN <<x, c, 0>>
             ELSE IF h < 180 THEN <<0, c, x>>
             ELSE IF h < 240 THEN <<0, x, c>>
             ELSE IF h < 300 THEN <<x, 0, c>>
             ELSE <<c, 0, x>>
    IN  [i \in 1..3 |-> RoundChannel(t[i] + m)]

\* 60 * (1 - |((h / 60) % 2) - 1|)
HueRamp(h) == 60 - Abs(JsMod(h, 120) - 60)

hslToRgb(h, s, l) ==
    LET cn == (100 - Abs(2 * l - 100)) * s
        c == cn * 120
        x == cn * 2 * HueRamp(h)
        m == (200 * l - cn) * 60
    IN  Sector(h, c, x, m)

hsvToRgb(h, s, v) ==
    LET cn == v * s
        c == cn * 120
        x == cn * 2 * HueRamp(h)
        m == (100 * v - cn) * 120
    IN  Sector(h, c, x, m)

hexToSVG(hex) ==
    LET m == match(slice(hex))
    IN  IF m[1] THEN [i \in 1..Len(m[2]) |-> parseInt(m[2][i])]
        ELSE <<Num(255), Num(255), Num(255)>>

DefaultSeed == 14327

\* Math.floor(Math.random() * k), Math.random() being rnd / RandRes in [0, 1)
FloorRandom(k, rnd) == (rnd * k) \div RandRes

\* rand without the check of the seed
randAnySeed(min, max, seed, rnd) ==
    IF min > max \/ max < 0 \/ min < 0 THEN -1
    ELSE IF max = min THEN min
    ELSE ((FloorRandom(max * seed - min, rnd) + min) % (max - min)) + min

\* rand reducing modulo the number of values of min..max
randInclusive(min, max, seed, rnd) ==
    IF min > max \/ max < 0 \/ min < 0 \/ seed < 1 THEN -1
    ELSE IF max = min THEN min
    ELSE ((FloorRandom(max * seed - min, rnd) + min) % (max - min + 1)) + min

rand(min, max, seed, rnd) ==
    IF min > max \/ max < 0 \/ min < 0 \/ seed < 1 THEN -1
    ELSE IF max = min THEN min
    ELSE ((FloorRandom(max * seed - min, rnd) + min) % (max - min)) + min

(***************************************************************************)
(* Outcomes of a call.                                                     *)
(***************************************************************************)
Throw(msg) == <<"throw", msg>>

Value(v) == <<"value", v>>

Pending == <<"pending">>

Kind(outcome) == outcome[1]

(***************************************************************************)
(* The ANSI Color class: a partial escape sequence.                        *)
(***************************************************************************)
Color(ansi) == <<"Color", ansi>>

Ansi(color) == color[2]

black == Color(<<"0">>)

red == Color(<<"1">>)

green == Color(<<"2">>)

yellow == Color(<<"3">>)

blue == Color(<<"4">>)

magenta == Color(<<"5">>)

cyan == Color(<<"6">>)

white == Color(<<"7">>)

from256(n) ==
    IF JsLt(n, 0) \/ JsGt(n, 255) THEN Throw("Invalid color code.")
    ELSE Color(<<"8", ";", "5", ";">> \o TemplateString(n))

fromRGB(r, g, b) ==
    IF JsLt(r, 0) \/ JsGt(r, 255) \/ JsLt(g, 0) \/ JsGt(g, 255) \/ JsLt(b, 0) \/ JsGt(b, 255)
    THEN Throw("RGB values must be between 0 and 255.")
    ELSE Color(<<"8", ";", "2", ";">> \o TemplateString(r) \o <<";">>
               \o TemplateString(g) \o <<";">> \o TemplateString(b))

fromHSL(hue, saturation, lightness) ==
    IF hue < 0 \/ hue > 360 THEN Throw("Hue value must be between 0 and 360.")
    ELSE IF saturation < 0 \/ saturation > 100
    THEN Throw("Saturation value must be between 0 and 100.")
    ELSE IF lightness < 0 \/ lightness > 100
    THEN Throw("Lightness value must be between 0 and 100.")
    ELSE LET cn == (100 - Abs(2 * lightness - 100)) * saturation
             c == cn * 120
             x == cn * 2 * HueRamp(hue)
             m == (200 * lightness - cn) * 60
             rgb == Sector(hue, c, x, m)
         IN  fromRGB(Num(rgb[1]), Num(rgb[2]), Num(rgb[3]))

fromHex(hex) ==
    IF ~HexRegexTest(hex) THEN Throw("Invalid hex string.")
    ELSE LET m == match(slice(hex))
             arr == IF m[1] THEN [i \in 1..Len(m[2]) |-> parseInt(m[2][i])]
                    ELSE <<Num(255), Num(255), Num(255)>>
         IN  fromRGB(Destructure(arr, 1), Destructure(arr, 2), Destructure(arr, 3))

random(n1, n2, n3) ==
    fromRGB(Num(rand(0, 255, DefaultSeed, n1)),
            Num(rand(0, 255, DefaultSeed, n2)),
            Num(rand(0, 255, DefaultSeed, n3)))

(***************************************************************************)
(* The RGB Color class of color.ts.                                        *)
(***************************************************************************)
\* the constructor rejecting 255
RgbColorExclusive(r, g, b) ==
    IF JsLt(r, 0) \/ JsGt(r, 254) \/ JsLt(g, 0) \/ JsGt(g, 254) \/ JsLt(b, 0) \/ JsGt(b, 254)
    THEN Throw("RGB values must be between 0 and 255.")
    ELSE <<"RgbColor", r, g, b>>

RgbColor(r, g, b) ==
    IF JsLt(r, 0) \/ JsGt(r, 255) \/ JsLt(g, 0) \/ JsGt(g, 255) \/ JsLt(b, 0) \/ JsGt(b, 255)
    THEN Throw("RGB values must be between 0 and 255.")
    ELSE <<"RgbColor", r, g, b>>

RgbFromHSL(hue, saturation, lightness) ==
    IF hue < 0 \/ hue > 360 THEN Throw("Hue value must be between 0 and 360.")
    ELSE IF saturation < 0 \/ saturation > 100
    THEN Throw("Saturation value must be between 0 and 100.")
    ELSE IF lightness < 0 \/ lightness > 100
    THEN Throw("Lightness value must be between 0 and 100.")
    ELSE LET rgb == hslToRgb(hue, saturation, lightness)
         IN  RgbColor(Num(rgb[1]), Num(rgb[2]), Num(rgb[3]))

RgbFromHSV(hue, saturation, value) ==
    IF hue < 0 \/ hue > 360 THEN Throw("Hue value must be between 0 and 360.")
    ELSE IF saturation < 0 \/ saturation > 100
    THEN Throw("Saturation value must be between 0 and 100.")
    ELSE IF value < 0 \/ value > 100 THEN Throw("Value value must be between 0 and 100.")
    ELSE LET rgb == hsvToRgb(hue, saturation, value)
         IN  RgbColor(Num(rgb[1]), Num(rgb[2]), Num(rgb[3]))

(***************************************************************************)
(* style.ts: a Style holds a reference (chain) to an array of fragments    *)
(* kept in heap.                                                           *)
(***************************************************************************)
StyleIds == {"a", "b"}

Null == "null"

RESET == <<"ESC", "[", "0", "m">>

\* the constructor keeping the array of the copied Style: this._chain = style._chain
constructorShared(h, src, fresh) ==
    IF src = Null THEN <<fresh, [h EXCEPT ![fresh] = <<>>]>>
    ELSE <<src, h>>

\* this._chain = style ? [...style._chain] : [], the new array being fresh
constructor(h, src, fresh) ==
    IF src = Null THEN <<fresh, [h EXCEPT ![fresh] = <<>>]>>
    ELSE <<fresh, [h EXCEPT ![fresh] = h[src]]>>

\* this._chain.unshift(fragment)
unshift(h, ref, fragment) == [h EXCEPT ![ref] = <<fragment>> \o @]

\* this._chain.push(fragment)
push(h, ref, fragment) == [h EXCEPT ![ref] = Append(@, fragment)]

light(h, ref) == push(h, ref, <<"ESC", "[", "2", "m">>)

normal(h, ref) == push(h, ref, <<"ESC", "[", "2", "2", "m">>)

bold(h, ref) == push(h, ref, <<"ESC", "[", "1", "m">>)

italic(h, ref) == push(h, ref, <<"ESC", "[", "3", "m">>)

underline(h, ref) == push(h, ref, <<"ESC", "[", "4", "m">>)

overline(h, ref) == push(h, ref, <<"ESC", "[", "5", "3", "m">>)

strikethrough(h, ref) == push(h, ref, <<"ESC", "[", "9", "m">>)

hide(h, ref) == push(h, ref, <<"ESC", "[", "8", "m">>)

foreground(h, ref, c) == push(h, ref, <<"ESC", "[", "3">> \o Ansi(c) \o <<"m">>)

color(h, ref, c) == foreground(h, ref, c)

fg(h, ref, c) == foreground(h, ref, c)

\* background with the selector of foreground
backgroundSelector3(h, ref, c) == push(h, ref, <<"ESC", "[", "3">> \o Ansi(c) \o <<"m">>)

background(h, ref, c) == push(h, ref, <<"ESC", "[", "4">> \o Ansi(c) \o <<"m">>)

bg(h, ref, c) == background(h, ref, c)

invert(h, ref) == push(h, ref, <<"ESC", "[", "7", "m">>)

(***************************************************************************)
(* Arguments the calls are made with.                                      *)
(***************************************************************************)
HexChars == {"#", "3", "f", "A", "z"}

HexInputs ==
    UNION {[1..k -> HexChars] : k \in 0..MaxHexLen} \cup {<<"#", "f", "f", "5", "7", "3", "3">>}

Channels ==
    {Num(n) : n \in (-ChanMargin..ChanMargin) \cup ((255 - ChanMargin)..(255 + ChanMargin))}
        \cup {Num(87)}

Indexes == {Num(n) : n \in (-ChanMargin)..(255 + ChanMargin)}

Hues ==
    {h \in -1..361 : h % HueStep = 0}
        \cup {-1, 0, 59, 60, 119, 120, 179, 180, 239, 240, 299, 300, 359, 360, 361}

Percents == {p \in -1..101 : p % PctStep = 0} \cup {-1, 0, 1, 50, 99, 100, 101}

Draws == 0..(RandRes - 1)

PaletteNames == {"black", "red", "green", "yellow", "blue", "magenta", "cyan", "white"}

PaletteCalls == {<<name, <<>>>> : name \in PaletteNames}

From256Calls == {<<"from256", <<n>>>> : n \in Indexes}

FromRGBCalls == {<<"fromRGB", <<r, g, b>>>> : r \in Channels, g \in Channels, b \in Channels}

HslCalls(op) == {<<op, <<h, s, l>>>> : h \in Hues, s \in Percents, l \in Percents}

\* the Color arguments of the Style methods, as the factory calls that make them
StyleColors == {<<"fromRGB", <<Num(255), Num(87), Num(51)>>>>}

RenderColors ==
    PaletteCalls
        \cup {<<"from256", <<Num(n)>>>> : n \in {0, 7, 8, 200, 255}}
        \cup {<<"fromRGB", <<Num(r), Num(g), Num(b)>>>> : r \in {0, 255}, g \in {0, 87, 255}, b \in {0, 51, 255}}

Op(c) == c[1]

Args(c) == c[2]

\* the Color a factory call evaluates to
Make(c) ==
    CASE Op(c) = "black" -> black
      [] Op(c) = "red" -> red
      [] Op(c) = "green" -> green
      [] Op(c) = "yellow" -> yellow
      [] Op(c) = "blue" -> blue
      [] Op(c) = "magenta" -> magenta
      [] Op(c) = "cyan" -> cyan
      [] Op(c) = "white" -> white
      [] Op(c) = "from256" -> from256(Args(c)[1])
      [] Op(c) = "fromRGB" -> fromRGB(Args(c)[1], Args(c)[2], Args(c)[3])

(***************************************************************************)
(* State: the call being made and its outcome; the Style instances.        *)
(***************************************************************************)
NoStyles ==
    /\ chain = [s \in StyleIds |-> Null]
    /\ heap = [s \in StyleIds |-> <<>>]
    /\ copiedFrom = [s \in StyleIds |-> Null]

InitCalls(calls) ==
    /\ call \in calls
    /\ result = Pending
    /\ NoStyles

\* the pending call ends with outcome
Returns(outcome) ==
    /\ result = Pending
    /\ result' = outcome
    /\ UNCHANGED <<call, chain, heap, copiedFrom>>

CallBlack ==
    /\ Op(call) = "black"
    /\ Returns(black)

CallRed ==
    /\ Op(call) = "red"
    /\ Returns(red)

CallGreen ==
    /\ Op(call) = "green"
    /\ Returns(green)

CallYellow ==
    /\ Op(call) = "yellow"
    /\ Returns(yellow)

CallBlue ==
    /\ Op(call) = "blue"
    /\ Returns(blue)

CallMagenta ==
    /\ Op(call) = "magenta"
    /\ Returns(magenta)

CallCyan ==
    /\ Op(call) = "cyan"
    /\ Returns(cyan)

CallWhite ==
    /\ Op(call) = "white"
    /\ Returns(white)

CallFrom256 ==
    /\ Op(call) = "from256"
    /\ Returns(from256(Args(call)[1]))

CallFromRGB ==
    /\ Op(call) = "fromRGB"
    /\ Returns(fromRGB(Args(call)[1], Args(call)[2], Args(call)[3]))

CallFromHSL ==
    /\ Op(call) = "fromHSL"
    /\ Returns(fromHSL(Args(call)[1], Args(call)[2], Args(call)[3]))

CallFromHex ==
    /\ Op(call) = "fromHex"
    /\ Returns(fromHex(Args(call)[1]))

CallRandom ==
    /\ Op(call) = "random"
    /\ \E n1 \in Draws, n2 \in Draws, n3 \in Draws : Returns(random(n1, n2, n3))

CallHslToRgb ==
    /\ Op(call) = "hslToRgb"
    /\ Returns(Value(hslToRgb(Args(call)[1], Args(call)[2], Args(call)[3])))

CallHsvToRgb ==
    /\ Op(call) = "hsvToRgb"
    /\ Returns(Value(hsvToRgb(Args(call)[1], Args(call)[2], Args(call)[3])))

CallHexToSVG ==
    /\ Op(call) = "hexToSVG"
    /\ Returns(Value(hexToSVG(Args(call)[1])))

CallRand ==
    /\ Op(call) = "rand"
    /\ \E rnd \in Draws :
        Returns(Value(rand(Args(call)[1], Args(call)[2], Args(call)[3], rnd)))

NewRgbColor ==
    /\ Op(call) = "new Color"
    /\ Returns(RgbColor(Args(call)[1], Args(call)[2], Args(call)[3]))

CallRgbFromHSL ==
    /\ Op(call) = "Color.fromHSL"
    /\ Returns(RgbFromHSL(Args(call)[1], Args(call)[2], Args(call)[3]))

CallRgbFromHSV ==
    /\ Op(call) = "Color.fromHSV"
    /\ Returns(RgbFromHSV(Args(call)[1], Args(call)[2], Args(call)[3]))

InitColor ==
    InitCalls(PaletteCalls \cup From256Calls \cup FromRGBCalls \cup HslCalls("fromHSL")
                  \cup {<<"fromHex", <<hex>>>> : hex \in HexInputs} \cup {<<"random", <<>>>>})

NextColor ==
    \/ CallBlack \/ CallRed \/ CallGreen \/ CallYellow
    \/ CallBlue \/ CallMagenta \/ CallCyan \/ CallWhite
    \/ CallFrom256 \/ CallFromRGB \/ CallFromHSL \/ CallFromHex \/ CallRandom

SpecColor == InitColor /\ [][NextColor]_vars

InitHex == InitCalls({<<"hexToSVG", <<hex>>>> : hex \in HexInputs})

NextHex == CallHexToSVG

SpecHex == InitHex /\ [][NextHex]_vars

InitRand ==
    InitCalls({<<"rand", <<min, max, seed>>>> :
                   min \in -1..MaxRange, max \in -1..MaxRange, seed \in 0..MaxSeed}
                  \cup {<<"random", <<>>>>})

NextRand == CallRand \/ CallRandom

SpecRand == InitRand /\ [][NextRand]_vars

InitRgb ==
    InitCalls(FromRGBCalls
                  \cup {<<"new Color", <<r, g, b>>>> : r \in Channels, g \in Channels, b \in Channels})

NextRgb == NewRgbColor \/ CallFromRGB

SpecRgb == InitRgb /\ [][NextRgb]_vars

InitHsx ==
    InitCalls(HslCalls("hslToRgb") \cup HslCalls("hsvToRgb") \cup HslCalls("fromHSL")
                  \cup HslCalls("Color.fromHSL") \cup HslCalls("Color.fromHSV"))

NextHsx == CallHslToRgb \/ CallHsvToRgb \/ CallFromHSL \/ CallRgbFromHSL \/ CallRgbFromHSV

SpecHsx == InitHsx /\ [][NextHsx]_vars

(***************************************************************************)
(* The Style instances: construction and the chaining methods.  A chaining *)
(* call leaves in call the method, the instance and the Color argument,    *)
(* and in result the instance it returns.                                  *)
(***************************************************************************)
ChainOf(s) == heap[chain[s]]

TotalFrags == Len(heap["a"]) + Len(heap["b"])

InitStyle ==
    /\ call = <<"none", <<>>>>
    /\ result = Pending
    /\ NoStyles

\* new Style()
NewStyle(s) ==
    /\ chain[s] = Null
    /\ LET made == constructor(heap, Null, s)
       IN  /\ chain' = [chain EXCEPT ![s] = made[1]]
           /\ heap' = made[2]
    /\ call' = <<"new Style()", <<s>>>>
    /\ result' = Value(s)
    /\ UNCHANGED copiedFrom

\* new Style(style)
CopyStyle(s, style) ==
    /\ chain[s] = Null
    /\ chain[style] # Null
    /\ TotalFrags + Len(ChainOf(style)) <= MaxFrags
    /\ LET made == constructor(heap, chain[style], s)
       IN  /\ chain' = [chain EXCEPT ![s] = made[1]]
           /\ heap' = made[2]
    /\ call' = <<"new Style(style)", <<s, style>>>>
    /\ result' = Value(s)
    /\ copiedFrom' = [copiedFrom EXCEPT ![s] = style]

\* a chaining method: the array is changed in place and this is returned
Chaining(method, s, args, h) ==
    /\ heap' = h
    /\ call' = <<method, <<s>> \o args>>
    /\ result' = Value(s)
    /\ UNCHANGED <<chain, copiedFrom>>

CallLight(s, max) ==
    /\ chain[s] # Null
    /\ TotalFrags < max
    /\ Chaining("light", s, <<>>, light(heap, chain[s]))

CallNormal(s, max) ==
    /\ chain[s] # Null
    /\ TotalFrags < max
    /\ Chaining("normal", s, <<>>, normal(heap, chain[s]))

CallBold(s, max) ==
    /\ chain[s] # Null
    /\ TotalFrags < max
    /\ Chaining("bold", s, <<>>, bold(heap, chain[s]))

CallItalic(s, max) ==
    /\ chain[s] # Null
    /\ TotalFrags < max
    /\ Chaining("italic", s, <<>>, italic(heap, chain[s]))

CallUnderline(s, max) ==
    /\ chain[s] # Null
    /\ TotalFrags < max
    /\ Chaining("underline", s, <<>>, underline(heap, chain[s]))

CallOverline(s, max) ==
    /\ chain[s] # Null
    /\ TotalFrags < max
    /\ Chaining("overline", s, <<>>, overline(heap, chain[s]))

CallStrikethrough(s, max) ==
    /\ chain[s] # Null
    /\ TotalFrags < max
    /\ Chaining("strikethrough", s, <<>>, strikethrough(heap, chain[s]))

CallHide(s, max) ==
    /\ chain[s] # Null
    /\ TotalFrags < max
    /\ Chaining("hide", s, <<>>, hide(heap, chain[s]))

CallInvert(s, max) ==
    /\ chain[s] # Null
    /\ TotalFrags < max
    /\ Chaining("invert", s, <<>>, invert(heap, chain[s]))

CallForeground(s, c, max) ==
    /\ chain[s] # Null
    /\ TotalFrags < max
    /\ Chaining("foreground", s, <<c>>, foreground(heap, chain[s], Make(c)))

CallColor(s, c, max) ==
    /\ chain[s] # Null
    /\ TotalFrags < max
    /\ Chaining("color", s, <<c>>, color(heap, chain[s], Make(c)))

CallFg(s, c, max) ==
    /\ chain[s] # Null
    /\ TotalFrags < max
    /\ Chaining("fg", s, <<c>>, fg(heap, chain[s], Make(c)))

CallBackground(s, c, max) ==
    /\ chain[s] # Null
    /\ TotalFrags < max
    /\ Chaining("background", s, <<c>>, background(heap, chain[s], Make(c)))

CallBg(s, c, max) ==
    /\ chain[s] # Null
    /\ TotalFrags < max
    /\ Chaining("bg", s, <<c>>, bg(heap, chain[s], Make(c)))

NextStyle ==
    \E s \in StyleIds :
        \/ NewStyle(s)
        \/ \E style \in StyleIds \ {s} : CopyStyle(s, style)
        \/ CallLight(s, MaxFrags)
        \/ CallNormal(s, MaxFrags)
        \/ CallBold(s, MaxFrags)
        \/ CallItalic(s, MaxFrags)
        \/ CallUnderline(s, MaxFrags)
        \/ CallOverline(s, MaxFrags)
        \/ CallStrikethrough(s, MaxFrags)
        \/ CallHide(s, MaxFrags)
        \/ CallInvert(s, MaxFrags)
        \/ \E c \in StyleColors :
              \/ CallForeground(s, c, MaxFrags)
              \/ CallColor(s, c, MaxFrags)
              \/ CallFg(s, c, MaxFrags)
              \/ CallBackground(s, c, MaxFrags)
              \/ CallBg(s, c, MaxFrags)

SpecStyle == InitStyle /\ [][NextStyle]_vars

\* one Style receiving Colors of every form
NextRender ==
    \/ NewStyle("a")
    \/ \E c \in RenderColors :
          \/ CallForeground("a", c, MaxRenderFrags)
          \/ CallColor("a", c, MaxRenderFrags)
          \/ CallFg("a", c, MaxRenderFrags)
          \/ CallBackground("a", c, MaxRenderFrags)
          \/ CallBg("a", c, MaxRenderFrags)

SpecRender == InitStyle /\ [][NextRender]_vars

(***************************************************************************)
(* Reading a payload back: the fields between ";" and their numerals.      *)
(***************************************************************************)
RECURSIVE Split(_, _)
Split(s, cur) ==
    IF s = <<>> THEN <<cur>>
    ELSE IF Head(s) = ";" THEN <<cur>> \o Split(Tail(s), <<>>)
    ELSE Split(Tail(s), Append(cur, Head(s)))

Fields(s) == Split(s, <<>>)

IsDigit(c) == \E i \in 1..10 : DigitChars[i] = c

DigitValue(c) == (CHOOSE i \in 1..10 : DigitChars[i] = c) - 1

IsNumeral(s) ==
    /\ Len(s) >= 1
    /\ \A i \in 1..Len(s) : IsDigit(s[i])
    /\ Len(s) > 1 => s[1] # "0"

RECURSIVE NumeralValue(_)
NumeralValue(s) ==
    IF s = <<>> THEN 0
    ELSE 10 * NumeralValue(SubSeq(s, 1, Len(s) - 1)) + DigitValue(s[Len(s)])

\* field f is the numeral of an integer of the set S
NumeralIn(f, S) == IsNumeral(f) /\ NumeralValue(f) \in S

\* the payload 8;2;r;g;b for channels of the set S
RgbPayload(p, S) ==
    LET f == Fields(p)
    IN  /\ Len(f) = 5
        /\ f[1] = <<"8">>
        /\ f[2] = <<"2">>
        /\ \A i \in 3..5 : NumeralIn(f[i], S)

WellFormedPayload(p) ==
    \/ Len(p) = 1 /\ p[1] \in {"0", "1", "2", "3", "4", "5", "6", "7"}
    \/ LET f == Fields(p)
       IN  Len(f) = 3 /\ f[1] = <<"8">> /\ f[2] = <<"5">> /\ NumeralIn(f[3], 0..255)
    \/ RgbPayload(p, 0..255)

\* one sigil character followed by exactly six hexadecimal digits
SigilSixHex(hex) == Len(hex) = 7 /\ \A i \in 2..7 : HexValue(hex[i]) >= 0

PairValue(hex, i) == 16 * HexValue(hex[i]) + HexValue(hex[i + 1])

Done == Kind(result) # "pending"

Arg(i) == Args(call)[i]

IsInt(a) == TypeOf(a) = "number"

ByteArgs == \A i \in 1..3 : NumberOf(Arg(i)) \in 0..255

(***************************************************************************)
(* C1: Color.fromHex of a sigil followed by six hexadecimal digits         *)
(* succeeds and yields the RGB colour of the three pairs of digits.        *)
(***************************************************************************)
C1_FromHexSigilSixDigits ==
    (Op(call) = "fromHex" /\ Done /\ SigilSixHex(Arg(1))) =>
        /\ Kind(result) = "Color"
        /\ Fields(Ansi(result)) =
               <<<<"8">>, <<"2">>, Decimal(PairValue(Arg(1), 2)),
                 Decimal(PairValue(Arg(1), 4)), Decimal(PairValue(Arg(1), 6))>>

(***************************************************************************)
(* C2: every Color a factory returns carries a well-formed payload: a      *)
(* palette digit 0-7, 8;5;n with n in 0..255, or 8;2;r;g;b with r, g, b in *)
(* 0..255; otherwise the factory fails.                                    *)
(***************************************************************************)
C2_FactoryPayloadWellFormed == Kind(result) = "Color" => WellFormedPayload(Ansi(result))

(***************************************************************************)
(* C5: constructing a Color from three integer channels succeeds exactly   *)
(* when each is in 0..255, the channels then read back as given; otherwise *)
(* it fails with the domain error.                                         *)
(***************************************************************************)
C5_RgbConstructionExactlyInRange ==
    (Op(call) \in {"new Color", "fromRGB"} /\ Done) =>
        IF ByteArgs
        THEN /\ Op(call) = "new Color" => result = <<"RgbColor", Arg(1), Arg(2), Arg(3)>>
             /\ Op(call) = "fromRGB" =>
                    /\ Kind(result) = "Color"
                    /\ RgbPayload(Ansi(result), 0..255)
                    /\ \A i \in 1..3 :
                           NumeralValue(Fields(Ansi(result))[i + 2]) = NumberOf(Arg(i))
        ELSE result = <<"throw", "RGB values must be between 0 and 255.">>

C5_Witness ==
    /\ Op(call) = "new Color"
    /\ result = <<"RgbColor", Num(0), Num(255), Num(87)>>

(***************************************************************************)
(* C6: hexToSVG returns (255,255,255) on every malformed input, that is on *)
(* every string other than a sigil followed by six hexadecimal digits.     *)
(***************************************************************************)
C6_MalformedHexYieldsWhite ==
    (Op(call) = "hexToSVG" /\ Done /\ ~SigilSixHex(Arg(1))) =>
        result = <<"value", <<Num(255), Num(255), Num(255)>>>>

(***************************************************************************)
(* C7: rand with 0 <= min <= max and seed >= 1 returns an integer of       *)
(* min..max, never the sentinel -1, and min when min = max; with any other *)
(* arguments it returns -1.                                                *)
(***************************************************************************)
C7_RandInRangeOrSentinel ==
    (Op(call) = "rand" /\ Done) =>
        LET min == Arg(1)
            max == Arg(2)
            seed == Arg(3)
            r == result[2]
        IN  IF 0 <= min /\ min <= max /\ seed >= 1
            THEN r \in min..max /\ r # -1 /\ (min = max => r = min)
            ELSE r = -1

C7_Witness ==
    /\ Op(call) = "rand"
    /\ Done
    /\ 0 < Arg(1) /\ Arg(1) < Arg(2) /\ Arg(3) > 1
    /\ result[2] > Arg(1)

(***************************************************************************)
(* C10: rand with 0 <= min < max and seed >= 1 never returns max: the      *)
(* result is in min..max-1; every channel of Color.random is in 0..254.    *)
(***************************************************************************)
C10_RandNeverReturnsMax ==
    /\ (Op(call) = "rand" /\ Done /\ 0 <= Arg(1) /\ Arg(1) < Arg(2) /\ Arg(3) >= 1) =>
           result[2] \in Arg(1)..(Arg(2) - 1)
    /\ (Op(call) = "random" /\ Done) =>
           Kind(result) = "Color" /\ RgbPayload(Ansi(result), 0..254)

C10_Witness ==
    /\ Op(call) = "rand"
    /\ Done
    /\ 0 <= Arg(1) /\ Arg(1) < Arg(2) - 1 /\ Arg(3) >= 1
    /\ result[2] = Arg(2) - 1

(***************************************************************************)
(* C9: for hue in 0..360 and saturation, lightness (value) in 0..100,      *)
(* hslToRgb and hsvToRgb return three integers of 0..255, so fromHSL and   *)
(* fromHSV succeed; outside these ranges the factories fail with a domain  *)
(* error.                                                                  *)
(***************************************************************************)
InHsxRange == Arg(1) \in 0..360 /\ Arg(2) \in 0..100 /\ Arg(3) \in 0..100

DomainErrors ==
    {"Hue value must be between 0 and 360.", "Saturation value must be between 0 and 100.",
     "Lightness value must be between 0 and 100.", "Value value must be between 0 and 100."}

C9_HslHsvChannelsAreBytes ==
    /\ (Op(call) \in {"hslToRgb", "hsvToRgb"} /\ Done /\ InHsxRange) =>
           /\ Len(result[2]) = 3
           /\ \A i \in 1..3 : result[2][i] \in 0..255
    /\ (Op(call) \in {"Color.fromHSL", "Color.fromHSV"} /\ Done) =>
           IF InHsxRange
           THEN /\ Kind(result) = "RgbColor"
                /\ \A i \in 2..4 : IsInt(result[i]) /\ NumberOf(result[i]) \in 0..255
           ELSE Kind(result) = "throw" /\ result[2] \in DomainErrors
    /\ (Op(call) = "fromHSL" /\ Done) =>
           IF InHsxRange
           THEN Kind(result) = "Color" /\ RgbPayload(Ansi(result), 0..255)
           ELSE Kind(result) = "throw" /\ result[2] \in DomainErrors

C9_Witness ==
    /\ call = <<"hslToRgb", <<120, 100, 50>>>>
    /\ result = <<"value", <<0, 255, 0>>>>

(***************************************************************************)
(* The fragment table of the Style methods.                                *)
(***************************************************************************)
AttributeMethods ==
    {"light", "normal", "bold", "italic", "underline", "overline", "strikethrough", "hide",
     "invert"}

ForegroundMethods == {"foreground", "color", "fg"}

BackgroundMethods == {"background", "bg"}

ChainingMethods == AttributeMethods \cup ForegroundMethods \cup BackgroundMethods

Sgr(params) == <<"ESC", "[">> \o params \o <<"m">>

Selector(method) == IF method \in ForegroundMethods THEN "3" ELSE "4"

FragmentOf(c) ==
    CASE Op(c) = "light" -> Sgr(<<"2">>)
      [] Op(c) = "normal" -> Sgr(<<"2", "2">>)
      [] Op(c) = "bold" -> Sgr(<<"1">>)
      [] Op(c) = "italic" -> Sgr(<<"3">>)
      [] Op(c) = "underline" -> Sgr(<<"4">>)
      [] Op(c) = "overline" -> Sgr(<<"5", "3">>)
      [] Op(c) = "strikethrough" -> Sgr(<<"9">>)
      [] Op(c) = "hide" -> Sgr(<<"8">>)
      [] Op(c) = "invert" -> Sgr(<<"7">>)
      [] OTHER -> Sgr(<<Selector(Op(c))>> \o Ansi(Make(Args(c)[2])))

IsPrefix(s, t) == Len(s) <= Len(t) /\ SubSeq(t, 1, Len(s)) = s

(***************************************************************************)
(* C3: each chaining call appends exactly one non-empty fragment, the      *)
(* fragment of that call, at the end of the Style's sequence, leaves every *)
(* earlier fragment as it was and returns the same instance; no step       *)
(* shortens a sequence.                                                    *)
(***************************************************************************)
C3_ChainingAppendsOneFragment ==
    [][/\ Op(call') \in ChainingMethods =>
              LET s == Args(call')[1]
              IN  /\ chain[s] # Null
                  /\ chain'[s] = chain[s]
                  /\ FragmentOf(call') # <<>>
                  /\ heap'[chain'[s]] = Append(heap[chain[s]], FragmentOf(call'))
                  /\ result' = <<"value", s>>
       /\ \A t \in StyleIds :
              chain[t] # Null =>
                  chain'[t] # Null /\ IsPrefix(heap[chain[t]], heap'[chain'[t]])]_vars

C3_Witness ==
    /\ call = <<"underline", <<"a">>>>
    /\ chain["a"] # Null
    /\ ChainOf("a") = <<Sgr(<<"1">>), Sgr(<<"4">>)>>
    /\ result = <<"value", "a">>

(***************************************************************************)
(* C4: a Style copy-constructed from another starts with the original's    *)
(* fragment sequence, and afterwards a chaining call on either of the two  *)
(* leaves the other's sequence unchanged.                                  *)
(***************************************************************************)
C4_CopyIsIndependent ==
    [][/\ Op(call') = "new Style(style)" =>
              LET s == Args(call')[1]
                  style == Args(call')[2]
              IN  /\ heap'[chain'[s]] = heap[chain[style]]
                  /\ heap'[chain'[style]] = heap[chain[style]]
       /\ Op(call') \in ChainingMethods =>
              \A t \in StyleIds \ {Args(call')[1]} :
                  (copiedFrom[t] = Args(call')[1] \/ copiedFrom[Args(call')[1]] = t) =>
                      heap'[chain'[t]] = heap[chain[t]]]_vars

C4_Witness ==
    /\ copiedFrom["b"] = "a"
    /\ call = <<"italic", <<"b">>>>
    /\ ChainOf("a") = <<Sgr(<<"1">>)>>
    /\ ChainOf("b") = <<Sgr(<<"1">>), Sgr(<<"3">>)>>

(***************************************************************************)
(* C8: foreground, color and fg append ESC[3<suffix>m, background and bg   *)
(* append ESC[4<suffix>m, the suffix being a single digit 0-7 for a        *)
(* palette colour, 8;5;<index> for a 256-colour index and 8;2;<r>;<g>;<b>  *)
(* for an RGB colour.                                                      *)
(***************************************************************************)
PaletteOrder == <<"black", "red", "green", "yellow", "blue", "magenta", "cyan", "white">>

SuffixOf(c, suffix) ==
    IF Op(c) \in PaletteNames
    THEN \E i \in 1..8 : PaletteOrder[i] = Op(c) /\ suffix = <<DigitChars[i]>>
    ELSE LET f == Fields(suffix)
         IN  IF Op(c) = "from256"
             THEN /\ Len(f) = 3
                  /\ f[1] = <<"8">>
                  /\ f[2] = <<"5">>
                  /\ NumeralIn(f[3], {NumberOf(Args(c)[1])})
             ELSE /\ Len(f) = 5
                  /\ f[1] = <<"8">>
                  /\ f[2] = <<"2">>
                  /\ \A i \in 1..3 : NumeralIn(f[i + 2], {NumberOf(Args(c)[i])})

C8_ColorFragments ==
    Op(call) \in ForegroundMethods \cup BackgroundMethods =>
        LET frag == ChainOf(Arg(1))[Len(ChainOf(Arg(1)))]
        IN  /\ Len(frag) >= 5
            /\ SubSeq(frag, 1, 3) = <<"ESC", "[", Selector(Op(call))>>
            /\ frag[Len(frag)] = "m"
            /\ SuffixOf(Arg(2), SubSeq(frag, 4, Len(frag) - 1))

C8_Witness ==
    /\ call = <<"bg", <<"a", <<"fromRGB", <<Num(255), Num(87), Num(51)>>>>>>>>
    /\ ChainOf("a") =
           <<<<"ESC", "[", "4", "8", ";", "2", ";", "2", "5", "5", ";", "8", "7", ";", "5", "1", "m">>>>

====
